---- MODULE Spec2Model ----
(***************************************************************************)
(* Model of the attestation signing pipeline of dirk:                      *)
(*   services/signer/standard/signbeaconattestation.go                     *)
(*   rules/service.go                                                      *)
(* Each request is one call of Service.SignBeaconAttestation.  The call is *)
(* split into steps at the calls of its collaborators (preCheck, RunRules, *)
(* generateSigningRootFromData, signRoot); the code between two such calls *)
(* is local to the request and is part of one step.                        *)
(***************************************************************************)
EXTENDS Integers, Sequences, FiniteSets, TLC

(* ---- bounds ---- *)
MaxEpoch == 1
NumConcurrent == 2
MaxTime == 2
MaxProviders == 3

(* ---- program constants ---- *)
RootLength == 32

(* ---- values ---- *)

\* rules.Result
UNKNOWN == "UNKNOWN"
APPROVED == "APPROVED"
DENIED == "DENIED"
FAILED == "FAILED"
Result == {UNKNOWN, APPROVED, DENIED, FAILED}

\* core.Result as used by the pipeline
ResultSucceeded == "ResultSucceeded"
ResultDenied == "ResultDenied"
ResultFailed == "ResultFailed"
CoreResult == {ResultSucceeded, ResultDenied, ResultFailed}
NoResult == "none"

\* Go byte slices: the nil slice, the empty non-nil slice, and full values.
NilBytes == "nil"
EmptyBytes == "empty"
Roots == {"AA", "BB"}
Domains == {"D1"}
ByteLen(b) == IF b \in {NilBytes, EmptyBytes} THEN 0 ELSE RootLength

\* nil pointers
NilCheckpoint == [nil |-> "Checkpoint"]
NilData == [nil |-> "SignBeaconAttestationData"]
NilAccount == "nil"
NilSignature == <<>>
NilRoot == [nil |-> "signingRoot"]
NoRulesCall == [nil |-> "RunRules not called"]

\* rules.Checkpoint
Checkpoint == [Epoch : 0..MaxEpoch, Root : {NilBytes, EmptyBytes} \cup Roots]

\* rules.SignBeaconAttestationData
SignBeaconAttestationData ==
  [Domain : {NilBytes, EmptyBytes} \cup Domains,
   Slot : {0},
   CommitteeIndex : {0},
   BeaconBlockRoot : {NilBytes, EmptyBytes} \cup Roots,
   Source : {NilCheckpoint} \cup {c \in Checkpoint : c.Epoch = 0},
   Target : {NilCheckpoint} \cup {c \in Checkpoint : c.Epoch >= 1}]

\* The key store: accounts "wallet/account" and their public keys.
Accounts == {"w/a1", "w/a2"}
PublicKey(a) == IF a = "w/a1" THEN "pk1" ELSE "pk2"
AccountNames == Accounts \cup {"", "w/zz"}
PubKeys == {NilBytes, "pk1"}

\* One inbound request: the arguments of SignBeaconAttestation.
Requests ==
  [credentials : BOOLEAN,
   accountName : AccountNames,
   pubKey : PubKeys,
   data : {NilData} \cup SignBeaconAttestationData]

\* The requests used when several requests run concurrently.
ValidData(bbr, epoch) ==
  [Domain |-> "D1", Slot |-> 0, CommitteeIndex |-> 0, BeaconBlockRoot |-> bbr,
   Source |-> [Epoch |-> 0, Root |-> "AA"],
   Target |-> [Epoch |-> epoch, Root |-> bbr]]

ConcurrentRequests ==
  { q \in Requests :
      /\ q.accountName \in Accounts
      /\ q.pubKey = NilBytes
      /\ \/ /\ q.credentials
            /\ \E bbr \in Roots, e \in 1..MaxEpoch : q.data = ValidData(bbr, e)
         \/ /\ q.accountName = "w/a1"
            /\ q.data = NilData
         \/ /\ q.accountName = "w/a1"
            /\ q.credentials
            /\ q.data = [ValidData("AA", 1) EXCEPT !.Target.Root = EmptyBytes] }

VARIABLES
  req,        \* the arguments of each call
  pc,         \* position of each call
  locked,     \* key store: the locked accounts
  history,    \* rule provider: committed votes per account
  seen,       \* rule provider: history read by the evaluation in progress
  checkRes,   \* the core.Result preCheck returned
  account,    \* account resolved by preCheck
  rulesReq,   \* the data RunRules received
  result,     \* the value RunRules returned
  signingRoot,\* the root generateSigningRootFromData returned
  err,        \* the collaborator that returned a non-nil error, if any
  calls,      \* collaborators invoked by each call, in order
  monitor,    \* records given to monitor.SignCompleted by each call
  outcome,    \* core.Result returned by each call
  signature,  \* signature returned by each call
  started,    \* time.Now() taken at the entry of each call
  ctx,        \* the context of each call: background, live or cancelled
  now,        \* the wall clock
  monitorMode,\* how the monitor behaves when SignCompleted is called
  providers,  \* Rule Engine: the verdict each configured provider renders
  pending,    \* Rule Engine: providers not yet invoked
  reduced,    \* Rule Engine: reduction of the verdicts collected so far
  agg,        \* Rule Engine: the aggregated verdict
  defaultVerdict \* Rule Engine: the verdict when no provider is configured

\* The environment of the calls and the Rule Engine's aggregation.
env == <<ctx, now, monitorMode, providers, pending, reduced, agg, defaultVerdict>>

vars == <<req, pc, locked, history, seen, checkRes, account, rulesReq, result,
          signingRoot, err, calls, monitor, outcome, signature, started, env>>

Reqs == DOMAIN pc

(* ---- collaborators outside the pipeline ---- *)

\* The vote a request casts.
Vote(d) == [epoch |-> d.Target.Epoch, root |-> d.BeaconBlockRoot,
            source |-> d.Source, target |-> d.Target]

\* Double vote detection over committed state: a committed vote for the same
\* target epoch that differs from this one.
Conflicts(h, d) == \E v \in h : v.epoch = d.Target.Epoch /\ v # Vote(d)

\* The values RunRules can return having read history h: a double vote is
\* denied, otherwise any value of its result type.
RuleVerdicts(h, d) == IF Conflicts(h, d) THEN {DENIED} ELSE Result

\* History after the verdict is finalized.
Commit(h, d, verdict) == IF verdict = APPROVED THEN h \cup {Vote(d)} ELSE h

\* Credential Resolver: the outcomes of resolving (name, key).
Lookup(name, key) ==
  IF (name = "") = (key = NilBytes) THEN {}
  ELSE IF name # "" THEN {a \in Accounts : a = name}
  ELSE {a \in Accounts : PublicKey(a) = key}

PreCheckResults(name, key, lockedSet) ==
  LET found == Lookup(name, key) IN
  IF found = {} THEN {[account |-> NilAccount, res |-> ResultDenied]}
  ELSE IF found \subseteq lockedSet THEN {[account |-> NilAccount, res |-> ResultDenied]}
  ELSE {[account |-> a, res |-> ResultSucceeded] : a \in found}
       \cup {[account |-> NilAccount, res |-> ResultDenied],
             [account |-> NilAccount, res |-> ResultFailed]}

\* Signing-Root Deriver: fails on malformed (short) input, otherwise the
\* digest is determined by the container and the domain.
DeriveFails(att, domain) ==
  \/ ByteLen(att.BeaconBlockRoot) # RootLength
  \/ ByteLen(att.Source.Root) # RootLength
  \/ ByteLen(att.Target.Root) # RootLength
  \/ ByteLen(domain) # RootLength

SigningRoot(att, domain) == [container |-> att, domain |-> domain]

\* Signer: a signature of the root under the account's key, or an error.
Sign(acc, root) == <<acc, root>>
SignRootResults(acc, root) ==
  {[signature |-> Sign(acc, root), err |-> FALSE],
   [signature |-> NilSignature, err |-> TRUE]}

\* A collaborator that blocks observes the cancellation of the context it
\* was given and aborts.
Cancelled(r) == ctx[r] = "cancelled"

\* preCheck: the lookup and the lock state come first; resolving an account
\* that is found and unlocked accesses the key store and can be cancelled.
PreCheckOutcomes(r) ==
  LET normal == PreCheckResults(req[r].accountName, req[r].pubKey, locked) IN
  IF Cancelled(r) /\ (\E c \in normal : c.res = ResultSucceeded)
    THEN {[account |-> NilAccount, res |-> ResultFailed]}
  ELSE normal

\* RunRules: a cancelled evaluation renders no verdict.
RunRulesOutcomes(r) ==
  IF Cancelled(r) THEN {FAILED} ELSE RuleVerdicts(seen[r], rulesReq[r])

\* signRoot: a cancelled signing returns an error.
SignRootOutcomes(r) ==
  IF Cancelled(r) THEN {[signature |-> NilSignature, err |-> TRUE]}
  ELSE SignRootResults(account[r], signingRoot[r])

(* ---- the Rule Engine's aggregation ---- *)

\* The values of the Result constants with DENIED and FAILED exchanged.
ResultValueExchanged(v) ==
  CASE v = UNKNOWN -> 0
    [] v = APPROVED -> 1
    [] v = DENIED -> 3
    [] v = FAILED -> 2

\* The values iota gives the Result constants.
ResultValue(v) ==
  CASE v = UNKNOWN -> 0
    [] v = APPROVED -> 1
    [] v = DENIED -> 2
    [] v = FAILED -> 3

\* A provider's UNKNOWN is not passed on uninterpreted.
Interpret(v) == IF v = UNKNOWN THEN FAILED ELSE v

\* The more severe of two verdicts.
Worse(a, b) == IF ResultValue(a) >= ResultValue(b) THEN a ELSE b

\* One more provider is invoked, in any order, and its verdict collected.
InvokeProvider ==
  /\ agg = NoResult
  /\ \E i \in pending :
       /\ pending' = pending \ {i}
       /\ reduced' = IF reduced = NoResult THEN Interpret(providers[i])
                     ELSE Worse(reduced, Interpret(providers[i]))
  /\ UNCHANGED <<req, pc, locked, history, seen, checkRes, account, rulesReq,
                 result, signingRoot, err, calls, monitor, outcome, signature,
                 started, ctx, now, monitorMode, providers, agg, defaultVerdict>>

\* Every provider has answered: the aggregated verdict.
Aggregate ==
  /\ agg = NoResult
  /\ pending = {}
  /\ agg' = IF Len(providers) = 0 THEN defaultVerdict ELSE reduced
  /\ UNCHANGED <<req, pc, locked, history, seen, checkRes, account, rulesReq,
                 result, signingRoot, err, calls, monitor, outcome, signature,
                 started, ctx, now, monitorMode, providers, pending, reduced,
                 defaultVerdict>>

(* ---- the pipeline ---- *)

\* started := time.Now(): the value of started at the current position.
StartedAt(r) == IF pc[r] = "RECEIVED" THEN now ELSE started[r]

\* SignCompleted given the time of completion in place of started.
SignCompletedNow(r, res) ==
  Append(monitor[r], [started |-> now, action |-> "attestation", result |-> res])

\* s.monitor.SignCompleted(started, "attestation", res)
SignCompleted(r, res) ==
  Append(monitor[r], [started |-> StartedAt(r), action |-> "attestation", result |-> res])

\* return res, sig  (emit: whether SignCompleted is called before returning).
\* SignCompleted is called synchronously: when it does not return, neither
\* does the call.
Return(r, res, sig, emit) ==
  IF emit /\ monitorMode = "blocks"
    THEN /\ monitor' = [monitor EXCEPT ![r] = SignCompleted(r, res)]
         /\ pc' = [pc EXCEPT ![r] = "SignCompleted"]
         /\ UNCHANGED <<outcome, signature>>
  ELSE /\ outcome' = [outcome EXCEPT ![r] = res]
       /\ signature' = [signature EXCEPT ![r] = sig]
       /\ monitor' = IF emit THEN [monitor EXCEPT ![r] = SignCompleted(r, res)] ELSE monitor
       /\ pc' = [pc EXCEPT ![r] = "returned"]

\* The input checks without the one of the beacon block root.
MissingInputNoBlockRoot(data) ==
  \/ data = NilData
  \/ data.Domain = NilBytes
  \/ data.Source = NilCheckpoint
  \/ data.Source.Root = NilBytes
  \/ data.Target = NilCheckpoint
  \/ data.Target.Root = NilBytes

\* The input checks without the last one.
MissingInputNoTargetRoot(data) ==
  \/ data = NilData
  \/ data.BeaconBlockRoot = NilBytes
  \/ data.Domain = NilBytes
  \/ data.Source = NilCheckpoint
  \/ data.Source.Root = NilBytes
  \/ data.Target = NilCheckpoint

\* The input checks of lines 68-102.
MissingInput(data) ==
  \/ data = NilData
  \/ data.BeaconBlockRoot = NilBytes
  \/ data.Domain = NilBytes
  \/ data.Source = NilCheckpoint
  \/ data.Source.Root = NilBytes
  \/ data.Target = NilCheckpoint
  \/ data.Target.Root = NilBytes

\* The entry with the data check ahead of the credentials check.
SignBeaconAttestationDataFirst(r) ==
  /\ pc[r] = "RECEIVED"
  /\ IF MissingInput(req[r].data)
       THEN Return(r, ResultDenied, NilSignature, TRUE)
     ELSE IF ~req[r].credentials
       THEN Return(r, ResultFailed, NilSignature, FALSE)
     ELSE /\ pc' = [pc EXCEPT ![r] = "preCheck"]
          /\ UNCHANGED <<outcome, signature, monitor>>
  /\ started' = [started EXCEPT ![r] = now]
  /\ UNCHANGED <<req, locked, history, seen, checkRes, account, rulesReq,
                 result, signingRoot, err, calls>>

\* Entry of SignBeaconAttestation up to the call of preCheck.
SignBeaconAttestation(r) ==
  /\ pc[r] = "RECEIVED"
  /\ IF ~req[r].credentials
       THEN Return(r, ResultFailed, NilSignature, FALSE)
     ELSE IF MissingInput(req[r].data)
       THEN Return(r, ResultDenied, NilSignature, TRUE)
     ELSE /\ pc' = [pc EXCEPT ![r] = "preCheck"]
          /\ UNCHANGED <<outcome, signature, monitor>>
  /\ started' = [started EXCEPT ![r] = now]
  /\ UNCHANGED <<req, locked, history, seen, checkRes, account, rulesReq,
                 result, signingRoot, err, calls>>

\* preCheck with every non-success reported as failed.
PreCheckFails(r) ==
  /\ pc[r] = "preCheck"
  /\ calls' = [calls EXCEPT ![r] = Append(@, "preCheck")]
  /\ \E c \in PreCheckOutcomes(r) :
       /\ checkRes' = [checkRes EXCEPT ![r] = c.res]
       /\ IF c.res # ResultSucceeded
            THEN /\ Return(r, ResultFailed, NilSignature, TRUE)
                 /\ UNCHANGED account
          ELSE /\ account' = [account EXCEPT ![r] = c.account]
               /\ pc' = [pc EXCEPT ![r] = "RunRules"]
               /\ UNCHANGED <<outcome, signature, monitor>>
  /\ UNCHANGED <<req, locked, history, seen, rulesReq, result, signingRoot, err>>

\* preCheck with every non-success reported as denied.
PreCheckDenies(r) ==
  /\ pc[r] = "preCheck"
  /\ calls' = [calls EXCEPT ![r] = Append(@, "preCheck")]
  /\ \E c \in PreCheckOutcomes(r) :
       /\ checkRes' = [checkRes EXCEPT ![r] = c.res]
       /\ IF c.res # ResultSucceeded
            THEN /\ Return(r, ResultDenied, NilSignature, TRUE)
                 /\ UNCHANGED account
          ELSE /\ account' = [account EXCEPT ![r] = c.account]
               /\ pc' = [pc EXCEPT ![r] = "RunRules"]
               /\ UNCHANGED <<outcome, signature, monitor>>
  /\ UNCHANGED <<req, locked, history, seen, rulesReq, result, signingRoot, err>>

\* wallet, account, checkRes := s.preCheck(...)
PreCheck(r) ==
  /\ pc[r] = "preCheck"
  /\ calls' = [calls EXCEPT ![r] = Append(@, "preCheck")]
  /\ \E c \in PreCheckOutcomes(r) :
       /\ checkRes' = [checkRes EXCEPT ![r] = c.res]
       /\ IF c.res # ResultSucceeded
            THEN /\ Return(r, c.res, NilSignature, TRUE)
                 /\ UNCHANGED account
          ELSE /\ account' = [account EXCEPT ![r] = c.account]
               /\ pc' = [pc EXCEPT ![r] = "RunRules"]
               /\ UNCHANGED <<outcome, signature, monitor>>
  /\ UNCHANGED <<req, locked, history, seen, rulesReq, result, signingRoot, err>>

\* RunRules entered under one lock shared by all accounts.
RunRulesCallGlobalLock(r) ==
  /\ pc[r] = "RunRules"
  /\ \A q \in Reqs : pc[q] # "rules"
  /\ calls' = [calls EXCEPT ![r] = Append(@, "RunRules")]
  /\ rulesReq' = [rulesReq EXCEPT ![r] = req[r].data]
  /\ seen' = [seen EXCEPT ![r] = history[account[r]]]
  /\ pc' = [pc EXCEPT ![r] = "rules"]
  /\ UNCHANGED <<req, locked, history, checkRes, account, result, signingRoot,
                 err, monitor, outcome, signature>>

\* s.ruler.RunRules(..., data) is entered: the rules read committed history.
RunRulesCall(r) ==
  /\ pc[r] = "RunRules"
  /\ calls' = [calls EXCEPT ![r] = Append(@, "RunRules")]
  /\ rulesReq' = [rulesReq EXCEPT ![r] = req[r].data]
  /\ seen' = [seen EXCEPT ![r] = history[account[r]]]
  /\ pc' = [pc EXCEPT ![r] = "rules"]
  /\ UNCHANGED <<req, locked, history, checkRes, account, result, signingRoot,
                 err, monitor, outcome, signature>>

\* The switch without the case for FAILED.
RulesSwitchDeniedOnly(r, verdict) ==
  IF verdict = DENIED THEN Return(r, ResultDenied, NilSignature, TRUE)
  ELSE /\ pc' = [pc EXCEPT ![r] = "generateSigningRoot"]
       /\ UNCHANGED <<outcome, signature, monitor>>

\* The switch with no SignCompleted in the case for FAILED.
RulesSwitchFailedUnmetered(r, verdict) ==
  IF verdict = DENIED THEN Return(r, ResultDenied, NilSignature, TRUE)
  ELSE IF verdict = FAILED THEN Return(r, ResultFailed, NilSignature, FALSE)
  ELSE /\ pc' = [pc EXCEPT ![r] = "generateSigningRoot"]
       /\ UNCHANGED <<outcome, signature, monitor>>

\* The switch on the value RunRules returned.
RulesSwitch(r, verdict) ==
  IF verdict = DENIED THEN Return(r, ResultDenied, NilSignature, TRUE)
  ELSE IF verdict = FAILED THEN Return(r, ResultFailed, NilSignature, TRUE)
  ELSE /\ pc' = [pc EXCEPT ![r] = "generateSigningRoot"]
       /\ UNCHANGED <<outcome, signature, monitor>>

\* RunRules returns and the pipeline switches on the result.
RunRulesReturn(r) ==
  /\ pc[r] = "rules"
  /\ \E verdict \in RunRulesOutcomes(r) :
       /\ history' = [history EXCEPT ![account[r]] = Commit(@, rulesReq[r], verdict)]
       /\ result' = [result EXCEPT ![r] = verdict]
       /\ RulesSwitch(r, verdict)
  /\ UNCHANGED <<req, locked, seen, checkRes, account, rulesReq, signingRoot,
                 err, calls>>

\* The local copy with source and target exchanged.
BeaconAttestationExchanged(data) ==
  [Slot |-> data.Slot,
   CommitteeIndex |-> data.CommitteeIndex,
   BeaconBlockRoot |-> data.BeaconBlockRoot,
   Source |-> [Epoch |-> data.Target.Epoch, Root |-> data.Target.Root],
   Target |-> [Epoch |-> data.Source.Epoch, Root |-> data.Source.Root]]

\* The local copy of the data with ssz size information.
BeaconAttestation(data) ==
  [Slot |-> data.Slot,
   CommitteeIndex |-> data.CommitteeIndex,
   BeaconBlockRoot |-> data.BeaconBlockRoot,
   Source |-> [Epoch |-> data.Source.Epoch, Root |-> data.Source.Root],
   Target |-> [Epoch |-> data.Target.Epoch, Root |-> data.Target.Root]]

\* The derivation with its error ignored.
GenerateSigningRootIgnoresErr(r) ==
  /\ pc[r] = "generateSigningRoot"
  /\ calls' = [calls EXCEPT ![r] = Append(@, "generateSigningRootFromData")]
  /\ LET attestation == BeaconAttestation(req[r].data) IN
     /\ err' = [err EXCEPT ![r] =
                  IF DeriveFails(attestation, req[r].data.Domain)
                    THEN "generateSigningRootFromData" ELSE @]
     /\ signingRoot' = [signingRoot EXCEPT ![r] =
                          SigningRoot(attestation, req[r].data.Domain)]
     /\ pc' = [pc EXCEPT ![r] = "signRoot"]
     /\ UNCHANGED <<outcome, signature, monitor>>
  /\ UNCHANGED <<req, locked, history, seen, checkRes, account, rulesReq, result>>

\* signingRoot, err := generateSigningRootFromData(ctx, attestation, data.Domain)
GenerateSigningRoot(r) ==
  /\ pc[r] = "generateSigningRoot"
  /\ calls' = [calls EXCEPT ![r] = Append(@, "generateSigningRootFromData")]
  /\ LET attestation == BeaconAttestation(req[r].data) IN
     IF DeriveFails(attestation, req[r].data.Domain)
       THEN /\ err' = [err EXCEPT ![r] = "generateSigningRootFromData"]
            /\ Return(r, ResultFailed, NilSignature, TRUE)
            /\ UNCHANGED signingRoot
     ELSE /\ signingRoot' = [signingRoot EXCEPT ![r] =
                               SigningRoot(attestation, req[r].data.Domain)]
          /\ pc' = [pc EXCEPT ![r] = "signRoot"]
          /\ UNCHANGED <<err, outcome, signature, monitor>>
  /\ UNCHANGED <<req, locked, history, seen, checkRes, account, rulesReq, result>>

\* A success that returns no signature.
SucceededWithout(sig) == NilSignature

\* The signature returned with core.ResultSucceeded.
Succeeded(sig) == sig

\* signRoot with no SignCompleted before the successful return.
SignRootSucceededUnmetered(r) ==
  /\ pc[r] = "signRoot"
  /\ calls' = [calls EXCEPT ![r] = Append(@, "signRoot")]
  /\ \E s \in SignRootOutcomes(r) :
       IF s.err
         THEN /\ err' = [err EXCEPT ![r] = "signRoot"]
              /\ Return(r, ResultFailed, NilSignature, TRUE)
       ELSE /\ Return(r, ResultSucceeded, Succeeded(s.signature), FALSE)
            /\ UNCHANGED err
  /\ UNCHANGED <<req, locked, history, seen, checkRes, account, rulesReq,
                 result, signingRoot>>

\* signature, err := signRoot(ctx, account, signingRoot[:])
SignRoot(r) ==
  /\ pc[r] = "signRoot"
  /\ calls' = [calls EXCEPT ![r] = Append(@, "signRoot")]
  /\ \E s \in SignRootOutcomes(r) :
       IF s.err
         THEN /\ err' = [err EXCEPT ![r] = "signRoot"]
              /\ Return(r, ResultFailed, NilSignature, TRUE)
       ELSE /\ Return(r, ResultSucceeded, Succeeded(s.signature), TRUE)
            /\ UNCHANGED err
  /\ UNCHANGED <<req, locked, history, seen, checkRes, account, rulesReq,
                 result, signingRoot>>

(* ---- specifications ---- *)

InitWith(ids, inputs, lockedSets) ==
  /\ req \in [ids -> inputs]
  /\ pc = [r \in ids |-> "RECEIVED"]
  /\ locked \in lockedSets
  /\ history = [a \in Accounts |-> {}]
  /\ seen = [r \in ids |-> {}]
  /\ checkRes = [r \in ids |-> NoResult]
  /\ account = [r \in ids |-> NilAccount]
  /\ rulesReq = [r \in ids |-> NoRulesCall]
  /\ result = [r \in ids |-> NoResult]
  /\ signingRoot = [r \in ids |-> NilRoot]
  /\ err = [r \in ids |-> "nil"]
  /\ calls = [r \in ids |-> <<>>]
  /\ monitor = [r \in ids |-> <<>>]
  /\ outcome = [r \in ids |-> NoResult]
  /\ signature = [r \in ids |-> NilSignature]
  /\ started = [r \in ids |-> 0]

\* Contexts that are never cancelled, a monitor that returns, a clock that
\* stands still.
QuietEnv(ids) ==
  /\ ctx = [r \in ids |-> "background"]
  /\ now = 0
  /\ monitorMode = "ok"

\* The Rule Engine's aggregation is not running.
IdleAgg ==
  /\ providers = <<>>
  /\ pending = {}
  /\ reduced = NoResult
  /\ agg = NoResult
  /\ defaultVerdict = DENIED

\* One request, any arguments.
Init == InitWith({1}, Requests, SUBSET Accounts) /\ QuietEnv({1}) /\ IdleAgg

\* Concurrent requests.
InitConc ==
  /\ InitWith(1..NumConcurrent, ConcurrentRequests, {{}})
  /\ QuietEnv(1..NumConcurrent)
  /\ IdleAgg

\* Some call takes its next step.
Enter == \E r \in Reqs : SignBeaconAttestation(r) /\ UNCHANGED env
Resolve == \E r \in Reqs : PreCheck(r) /\ UNCHANGED <<started, env>>
RulesEnter == \E r \in Reqs : RunRulesCall(r) /\ UNCHANGED <<started, env>>
RulesLeave == \E r \in Reqs : RunRulesReturn(r) /\ UNCHANGED <<started, env>>
Derive == \E r \in Reqs : GenerateSigningRoot(r) /\ UNCHANGED <<started, env>>
SignIt == \E r \in Reqs : SignRoot(r) /\ UNCHANGED <<started, env>>

Next ==
  \/ Enter
  \/ Resolve
  \/ RulesEnter
  \/ RulesLeave
  \/ Derive
  \/ SignIt

\* Everything but the environment.
pipeline == <<req, pc, locked, history, seen, checkRes, account, rulesReq,
              result, signingRoot, err, calls, monitor, outcome, signature,
              started>>

\* The caller cancels the context of a call that has not returned.
CancelCtx ==
  \E r \in Reqs :
    /\ ctx[r] = "live"
    /\ pc[r] \notin {"SignCompleted", "returned"}
    /\ ctx' = [ctx EXCEPT ![r] = "cancelled"]
    /\ UNCHANGED <<pipeline, now, monitorMode, providers, pending, reduced,
                   agg, defaultVerdict>>

\* Time passes.
Tick ==
  /\ now < MaxTime
  /\ now' = now + 1
  /\ UNCHANGED <<pipeline, ctx, monitorMode, providers, pending, reduced,
                 agg, defaultVerdict>>

\* One request whose context may be cancelled, before the call or during it,
\* while time passes.
InitEnv ==
  /\ InitWith({1}, Requests, SUBSET Accounts)
  /\ ctx \in [{1} -> {"live", "cancelled"}]
  /\ now = 0
  /\ monitorMode = "ok"
  /\ IdleAgg

NextEnv == Next \/ CancelCtx \/ Tick

SpecEnv == InitEnv /\ [][NextEnv]_vars

\* The steps of one call.
StepOf(r) ==
  \/ SignBeaconAttestation(r) /\ UNCHANGED env
  \/ PreCheck(r) /\ UNCHANGED <<started, env>>
  \/ RunRulesCall(r) /\ UNCHANGED <<started, env>>
  \/ RunRulesReturn(r) /\ UNCHANGED <<started, env>>
  \/ GenerateSigningRoot(r) /\ UNCHANGED <<started, env>>
  \/ SignRoot(r) /\ UNCHANGED <<started, env>>

\* Concurrent well-formed requests.  Each call runs on its own goroutine:
\* the collaborators of call 1 may block for ever, those of the other calls
\* answer.
InitLive ==
  /\ InitWith(1..NumConcurrent,
              {q \in ConcurrentRequests :
                 q.credentials /\ \E bbr \in Roots : q.data = ValidData(bbr, 1)},
              {{}})
  /\ QuietEnv(1..NumConcurrent)
  /\ IdleAgg

SpecLive ==
  /\ InitLive
  /\ [][Next]_vars
  /\ \A r \in 2..NumConcurrent : WF_vars(StepOf(r))

\* The Rule Engine aggregating any vector of provider verdicts.
InitAgg ==
  /\ InitWith({}, Requests, {{}})
  /\ QuietEnv({})
  /\ providers \in UNION {[1..n -> Result] : n \in 0..MaxProviders}
  /\ pending = DOMAIN providers
  /\ reduced = NoResult
  /\ agg = NoResult
  /\ defaultVerdict \in {APPROVED, DENIED}

NextAgg == InvokeProvider \/ Aggregate

SpecAgg == InitAgg /\ [][NextAgg]_vars

\* One request served with a monitor that records, fails or does not
\* return; every collaborator that is called answers.
InitMon ==
  /\ InitWith({1}, ConcurrentRequests, {{}})
  /\ ctx = [r \in {1} |-> "background"]
  /\ now = 0
  /\ monitorMode \in {"ok", "fails", "blocks"}
  /\ IdleAgg

SpecMon == InitMon /\ [][Next]_vars /\ WF_vars(Next)

Spec == Init /\ [][Next]_vars

SpecConc == InitConc /\ [][Next]_vars

Returned(r) == pc[r] = "returned"
Called(r, name) == \E i \in 1..Len(calls[r]) : calls[r][i] = name
Present(b) == ByteLen(b) > 0
SameAccount(r1, r2) == account[r1] # NilAccount /\ account[r1] = account[r2]

(* ---- C1 ---- *)
\* C1: a request succeeds, and the signer is invoked, only if RunRules
\* returned APPROVED; a request whose verdict was UNKNOWN ends in FAILED.
C1_OnlyApprovedSigns ==
  \A r \in Reqs :
    /\ (outcome[r] = ResultSucceeded \/ Called(r, "signRoot")) => result[r] = APPROVED
    /\ (Returned(r) /\ result[r] = UNKNOWN) =>
         (outcome[r] = ResultFailed /\ signature[r] = NilSignature)

WellFormed(d) == d # NoRulesCall /\ ~DeriveFails(d, d.Domain)

\* C3: two requests for the same account, with complete data and votes for
\* the same target epoch that exclude one another, both approved by the
\* rules, never both end succeeded.
C3_Serialized ==
  \A r1, r2 \in Reqs :
    (/\ r1 # r2
     /\ SameAccount(r1, r2)
     /\ WellFormed(rulesReq[r1]) /\ WellFormed(rulesReq[r2])
     /\ result[r1] = APPROVED /\ result[r2] = APPROVED
     /\ Vote(rulesReq[r1]).epoch = Vote(rulesReq[r2]).epoch
     /\ Vote(rulesReq[r1]) # Vote(rulesReq[r2]))
    => ~(outcome[r1] = ResultSucceeded /\ outcome[r2] = ResultSucceeded)

(* ---- C4 ---- *)
AbsentField(data) ==
  \/ data = NilData
  \/ data.Domain = NilBytes
  \/ data.BeaconBlockRoot = NilBytes
  \/ data.Source = NilCheckpoint
  \/ data.Source.Root = NilBytes
  \/ data.Target = NilCheckpoint
  \/ data.Target.Root = NilBytes

\* C4: a request with credentials whose data, or one of domain, beacon block
\* root, source, source root, target, target root, is absent is denied with
\* no signature as soon as it is handled and never reaches RunRules.
C4_StructuralGating ==
  \A r \in Reqs :
    (req[r].credentials /\ AbsentField(req[r].data)) =>
      /\ ~Called(r, "RunRules") /\ rulesReq[r] = NoRulesCall
      /\ pc[r] \in {"RECEIVED", "returned"}
      /\ Returned(r) => (outcome[r] = ResultDenied /\ signature[r] = NilSignature)

C4_Witness ==
  \E r \in Reqs :
    /\ Returned(r) /\ req[r].credentials
    /\ req[r].data # NilData
    /\ req[r].data.Domain \in Domains
    /\ req[r].data.BeaconBlockRoot \in Roots
    /\ req[r].data.Source # NilCheckpoint /\ req[r].data.Source.Root \in Roots
    /\ req[r].data.Target # NilCheckpoint /\ req[r].data.Target.Root = NilBytes
    /\ outcome[r] = ResultDenied

(* ---- C5 ---- *)
\* C5: the data RunRules receives has domain, beacon block root, source root
\* and target root of non-zero length.
C5_RulesSeeCompleteData ==
  \A r \in Reqs :
    rulesReq[r] # NoRulesCall =>
      /\ Present(rulesReq[r].Domain)
      /\ Present(rulesReq[r].BeaconBlockRoot)
      /\ Present(rulesReq[r].Source.Root)
      /\ Present(rulesReq[r].Target.Root)

(* ---- C6 ---- *)
\* C6: a DENIED verdict ends the request denied and a FAILED verdict ends it
\* failed, with no signature and without deriver or signer being invoked.
C6_RuleRejection ==
  \A r \in Reqs :
    /\ result[r] = DENIED => (Returned(r) /\ outcome[r] = ResultDenied)
    /\ result[r] = FAILED => (Returned(r) /\ outcome[r] = ResultFailed)
    /\ result[r] \in {DENIED, FAILED} =>
         /\ signature[r] = NilSignature
         /\ ~Called(r, "generateSigningRootFromData")
         /\ ~Called(r, "signRoot")

C6_Witness ==
  \E r \in Reqs :
    /\ result[r] = FAILED /\ outcome[r] = ResultFailed
    /\ calls[r] = <<"preCheck", "RunRules">>

(* ---- C7 ---- *)
\* C7: a request without credentials ends failed with no signature, emits
\* no metrics record and invokes no collaborator, whatever its other inputs.
C7_NoCredentials ==
  \A r \in Reqs :
    ~req[r].credentials =>
      /\ calls[r] = <<>> /\ monitor[r] = <<>>
      /\ pc[r] \in {"RECEIVED", "returned"}
      /\ Returned(r) => (outcome[r] = ResultFailed /\ signature[r] = NilSignature)

C7_Witness ==
  \E r \in Reqs :
    /\ ~req[r].credentials /\ req[r].data = NilData
    /\ Returned(r) /\ outcome[r] = ResultFailed

(* ---- C8 ---- *)
\* C8: a request with credentials has emitted exactly one metrics record
\* when it has returned and none before.
C8_OneMetricsRecord ==
  \A r \in Reqs :
    req[r].credentials =>
      Len(monitor[r]) = (IF Returned(r) THEN 1 ELSE 0)

C8_Witness ==
  \E r \in Reqs :
    /\ req[r].credentials /\ Returned(r)
    /\ result[r] = FAILED
    /\ Len(monitor[r]) = 1

(* ---- C9 ---- *)
\* C9: when preCheck returns anything but success the request has returned
\* that same outcome with no signature, and neither RunRules, the deriver
\* nor the signer were invoked.
C9_ResolverShortCircuit ==
  \A r \in Reqs :
    checkRes[r] \in {ResultDenied, ResultFailed} =>
      /\ Returned(r) /\ outcome[r] = checkRes[r]
      /\ signature[r] = NilSignature
      /\ calls[r] = <<"preCheck">>
      /\ rulesReq[r] = NoRulesCall

C9_Witness ==
  \E r \in Reqs :
    checkRes[r] = ResultFailed /\ Returned(r) /\ outcome[r] = ResultFailed

(* ---- C10 ---- *)
\* C10: after approval an error of the deriver or of the signer ends the
\* request failed with no signature, and after an error of the deriver the
\* signer is not invoked.
C10_SigningErrors ==
  \A r \in Reqs :
    (result[r] = APPROVED /\ err[r] # "nil") =>
      /\ Returned(r) /\ outcome[r] = ResultFailed
      /\ signature[r] = NilSignature
      /\ err[r] = "generateSigningRootFromData" => ~Called(r, "signRoot")

C10_Witness ==
  \E r1, r2 \in Reqs :
    /\ result[r1] = APPROVED /\ err[r1] = "generateSigningRootFromData"
    /\ outcome[r1] = ResultFailed
    /\ result[r2] = APPROVED /\ err[r2] = "signRoot"
    /\ outcome[r2] = ResultFailed

(* ---- C11 ---- *)
\* C11: a request with credentials and complete data whose account
\* resolved, whose verdict was APPROVED and whose derivation and signing
\* returned no error has returned succeeded with the signature the signer
\* produced for the resolved account, and has emitted exactly one metrics
\* record, tagged attestation and succeeded.
C11_HappyPath ==
  \A r \in Reqs :
    (/\ req[r].credentials /\ ~AbsentField(req[r].data)
     /\ checkRes[r] = ResultSucceeded
     /\ result[r] = APPROVED
     /\ Called(r, "signRoot") /\ err[r] = "nil")
    => /\ Returned(r) /\ outcome[r] = ResultSucceeded
       /\ account[r] \in Lookup(req[r].accountName, req[r].pubKey)
       /\ signature[r] = Sign(account[r], signingRoot[r])
       /\ Len(monitor[r]) = 1
       /\ monitor[r][1].action = "attestation"
       /\ monitor[r][1].result = ResultSucceeded

C11_Witness ==
  \E r \in Reqs :
    /\ req[r].credentials /\ req[r].data = ValidData("BB", 1)
    /\ req[r].accountName = "" /\ req[r].pubKey = "pk1"
    /\ result[r] = APPROVED /\ err[r] = "nil"
    /\ outcome[r] = ResultSucceeded
    /\ signature[r] # NilSignature
    /\ Len(monitor[r]) = 1

C13_NoCrossAccountBlocking ==
  \A r \in 2..NumConcurrent :
    (req[r].accountName # req[1].accountName) => <>Returned(r)

C13_Witness ==
  \E r \in Reqs :
    /\ r # 1 /\ pc[1] = "rules"
    /\ account[r] # NilAccount /\ account[r] # account[1]
    /\ Returned(r) /\ outcome[r] = ResultSucceeded

(* ---- C14 ---- *)
Some(v) == \E i \in DOMAIN providers : providers[i] = v
Every(v) == \A i \in DOMAIN providers : providers[i] = v

TargetLocked(r) ==
  LET found == Lookup(req[r].accountName, req[r].pubKey) IN
  found # {} /\ found \subseteq locked

C16_MetricsIndependent ==
  \A r \in {1} :
    (Len(monitor[r]) = 1) ~>
      (Returned(r) /\ Len(monitor[r]) = 1 /\ outcome[r] = monitor[r][1].result)

(* ---- C17 ---- *)
\* C17: every metrics record of a call carries the action name attestation,
\* the time taken at the entry of the call, and the outcome the call
\* returns.
C17_MetricsRecord ==
  \A r \in Reqs :
    \A i \in 1..Len(monitor[r]) :
      /\ monitor[r][i].action = "attestation"
      /\ monitor[r][i].started = started[r]
      /\ Returned(r) /\ monitor[r][i].result = outcome[r]

C17_Witness ==
  \E r \in Reqs :
    /\ Returned(r) /\ outcome[r] = ResultFailed /\ err[r] = "signRoot"
    /\ Len(monitor[r]) = 1
    /\ started[r] = 1 /\ now = MaxTime
    /\ monitor[r][1].started = 1

(* ---- C18 ---- *)
CallOrder == <<"preCheck", "RunRules", "generateSigningRootFromData", "signRoot">>

\* C18: the collaborators of a call are invoked in the order resolver, Rule
\* Engine, deriver, signer, each at most once and each only after the one
\* before it returned success or approval; the metrics record is emitted
\* once the outcome is decided and no later than the return.
C18_CallOrder ==
  \A r \in Reqs :
    /\ Len(calls[r]) <= Len(CallOrder)
    /\ calls[r] = SubSeq(CallOrder, 1, Len(calls[r]))
    /\ Called(r, "RunRules") => checkRes[r] = ResultSucceeded
    /\ Called(r, "generateSigningRootFromData") => result[r] = APPROVED
    /\ Called(r, "signRoot") => signingRoot[r] # NilRoot
    /\ Len(monitor[r]) <= 1
    /\ Len(monitor[r]) = 1 => pc[r] \in {"SignCompleted", "returned"}

(* ---- C19 ---- *)
\* C19: the rules see the request's data, the deriver is given a container
\* with the same slot, committee index, beacon block root, source and target
\* and the request's domain, the signer is given the resolved account, and
\* no step modifies the request.
C19_SignsWhatWasApproved ==
  /\ [](\A r \in Reqs :
          /\ rulesReq[r] # NoRulesCall => rulesReq[r] = req[r].data
          /\ signingRoot[r] # NilRoot =>
               /\ signingRoot[r].container.Slot = rulesReq[r].Slot
               /\ signingRoot[r].container.CommitteeIndex = rulesReq[r].CommitteeIndex
               /\ signingRoot[r].container.BeaconBlockRoot = rulesReq[r].BeaconBlockRoot
               /\ signingRoot[r].container.Source = rulesReq[r].Source
               /\ signingRoot[r].container.Target = rulesReq[r].Target
               /\ signingRoot[r].domain = rulesReq[r].Domain
          /\ signature[r] # NilSignature =>
               /\ account[r] \in Lookup(req[r].accountName, req[r].pubKey)
               /\ signature[r] = Sign(account[r], signingRoot[r]))
  /\ [][req' = req]_vars

C19_Witness ==
  \E r \in Reqs :
    /\ outcome[r] = ResultSucceeded
    /\ req[r].accountName = "w/a2"
    /\ req[r].data.BeaconBlockRoot = "AA" /\ req[r].data.Target.Root = "BB"
    /\ signature[r] = <<"w/a2", SigningRoot(BeaconAttestation(req[r].data), "D1")>>

(* ---- C20 ---- *)
\* C20: a request with credentials whose data fails a structural check
\* never reaches preCheck and ends denied, whatever account it names and
\* whatever the lock state.
C20_ValidationBeforeResolution ==
  \A r \in Reqs :
    (req[r].credentials /\ AbsentField(req[r].data)) =>
      /\ ~Called(r, "preCheck")
      /\ checkRes[r] = NoResult /\ account[r] = NilAccount
      /\ pc[r] # "preCheck"
      /\ Returned(r) => outcome[r] = ResultDenied

C20_Witness ==
  \E r \in Reqs :
    /\ req[r].credentials /\ req[r].data # NilData
    /\ req[r].data.BeaconBlockRoot = NilBytes
    /\ req[r].accountName = "w/zz"
    /\ locked = Accounts
    /\ Returned(r) /\ outcome[r] = ResultDenied /\ calls[r] = <<>>

TypeOK ==
  /\ pc \in [Reqs -> {"RECEIVED", "preCheck", "RunRules", "rules",
                      "generateSigningRoot", "signRoot", "SignCompleted",
                      "returned"}]
  /\ outcome \in [Reqs -> CoreResult \cup {NoResult}]
  /\ result \in [Reqs -> Result \cup {NoResult}]
  /\ locked \subseteq Accounts

====
